---- MODULE Spec2Model ----
(***************************************************************************)
(* Model of the SMS command engine of decisionbot                          *)
(* (crates/server/src/main.rs): the users/contacts store, the two          *)
(* process-wide TTL maps (DEFERRED_CONTACTS, PENDING_DELETIONS) and the    *)
(* message handlers, each cut into one action per store call and per lock  *)
(* section, so that concurrently running handlers interleave as the tasks  *)
(* of the server do.                                                       *)
(***************************************************************************)
EXTENDS Integers, Sequences, FiniteSets, TLC

(***************************************************************************)
(* Bounds of the model.                                                    *)
(***************************************************************************)
NumTasks == 2           \* handler tasks that may run concurrently
MaxMsgs == 3            \* inbound messages handled in one behaviour
MaxOverlap == 2         \* the same, where the handlers of the messages may overlap
MaxRejoin == 4          \* the same, where a sender stops and onboards again
MaxTicks == 1           \* clock advances in one behaviour
TickStep == 1           \* what a long clock advance adds to the timeout, in seconds
MaxNameLen == 21        \* longest name a sender can type in the model

(***************************************************************************)
(* Program constants (seconds).                                            *)
(***************************************************************************)
DEFERRED_TIMEOUT == 300
DELETION_TIMEOUT == 300
MAX_NAME_LEN == 20

Tasks == 1..NumTasks

(***************************************************************************)
(* Phone numbers.  Canonical numbers are the strings the store compares;   *)
(* raw TEL values are what a card carries.                                 *)
(***************************************************************************)
Numbers == {"+11", "+12", "+13"}
Senders == {"+11", "+12"}
Raws == {"+11", "+12", "+13", "(1)3", "junk"}
NoNumber == "none"

\* util::E164::from_str followed by to_string: the canonical form, or
\* NoNumber when the raw value is not a phone number.
E164_from_str(raw) ==
    CASE raw \in Numbers -> raw
      [] raw = "(1)3" -> "+13"
      [] OTHER -> NoNumber

(***************************************************************************)
(* Text.  A string is a sequence of characters; Code is the byte value     *)
(* that ORDER BY compares and to_lowercase/LOWER map (the first byte of a  *)
(* character that takes two).                                              *)
(***************************************************************************)
Chars == {" ", "0", "1", "2", "3", "A", "a", "b", "x", "é"}
Code(c) ==
    CASE c = " " -> 32 [] c = "0" -> 48 [] c = "1" -> 49 [] c = "2" -> 50
      [] c = "3" -> 51 [] c = "A" -> 65 [] c = "a" -> 97 [] c = "b" -> 98
      [] c = "é" -> 195
      [] OTHER -> 120
\* the bytes of a character in UTF-8, and str::len, which counts bytes
Utf8Len(c) == IF Code(c) >= 128 THEN 2 ELSE 1
RECURSIVE ByteLen(_)
ByteLen(s) == IF s = <<>> THEN 0 ELSE Utf8Len(Head(s)) + ByteLen(Tail(s))
IsDigit(c) == Code(c) >= 48 /\ Code(c) <= 57
IsLowerLetter(c) == Code(c) >= 97 /\ Code(c) <= 122

\* str::parse::<usize> on the characters of the model: the value, or -1 for
\* an Err (the empty string, or any character that is not a digit)
RECURSIVE ParseDigits(_, _)
ParseDigits(s, acc) ==
    IF s = <<>> THEN acc
    ELSE IF ~IsDigit(Head(s)) THEN -1
    ELSE ParseDigits(Tail(s), 10 * acc + (Code(Head(s)) - 48))
ParseUsize(s) == IF s = <<>> THEN -1 ELSE ParseDigits(s, 0)
Lower(c) == IF c = "A" THEN "a" ELSE c
to_lowercase(s) == [i \in 1..Len(s) |-> Lower(s[i])]

\* s LIKE %t% : t occurs in s as a contiguous substring.
Contains(s, t) ==
    \E i \in 0..(Len(s) - Len(t)) : \A j \in 1..Len(t) : s[i + j] = t[j]

\* byte-wise string order of SQLite's default collation: s sorts before t
StrLess(s, t) ==
    \/ \E i \in 1..Len(s) :
          /\ i <= Len(t)
          /\ \A j \in 1..(i - 1) : s[j] = t[j]
          /\ Code(s[i]) < Code(t[i])
    \/ /\ Len(s) < Len(t)
       /\ \A j \in 1..Len(s) : s[j] = t[j]

\* words.collect::<Vec<_>>().join(" ") : the words with one space between
RECURSIVE Join(_)
Join(words) ==
    IF words = <<>> THEN <<>>
    ELSE IF Len(words) = 1 THEN words[1]
    ELSE words[1] \o <<" ">> \o Join(Tail(words))

\* a word of MaxNameLen characters
LongWord == [i \in 1..MaxNameLen |-> "x"]

(***************************************************************************)
(* Commands (crate::command::Command) and replies.                         *)
(***************************************************************************)
CommandWords == {"h", "name", "stop", "info", "contacts", "delete", "confirm", "pick"}
NoCommand == "NoCommand"
Unrecognized == "Unrecognized"

\* command_word.map(Command::try_from); the empty word stands for a body
\* with no word in it
ParseCommand(word) ==
    IF word = "" THEN NoCommand
    ELSE IF word \in CommandWords THEN word ELSE Unrecognized

\* the Display text of a store error (sqlx::Error), and no such text
StoreErrorText == "store error text"
NoText == "none"
\* one line of a reply's list of failures: a fixed message, or a message
\* formatted around the text of an error
Item(why) == [why |-> why, text |-> NoText]
ItemWith(why, e) == [why |-> why, text |-> e]

Rep(k) == [kind |-> k, ok |-> <<>>, failed |-> <<>>]
RepList(k, good, bad) == [kind |-> k, ok |-> good, failed |-> bad]
InternalServerError == Rep("InternalServerError")

NoUser == <<"no user">>
NoMsg == [from |-> NoNumber, media |-> FALSE, cmd |-> "", args |-> <<>>, cards |-> <<>>]

(***************************************************************************)
(* State.                                                                  *)
(***************************************************************************)
VARIABLES
    users,      \* table users: number -> name, NoUser where there is no row
    contacts,   \* table contacts: set of rows [id, sub, name, num]
    nextId,     \* next value of contacts.id
    deferred,   \* DEFERRED_CONTACTS: sender -> [has, list]
    pending,    \* PENDING_DELETIONS: set of [sub, ord, id, ts], one per token
    now,        \* the monotonic clock read by Instant::now()
    ticks,      \* clock advances so far
    msgs,       \* messages received so far
    h,          \* per task: the handler's position and locals
    log,        \* the messages most recently answered, oldest first
    shown,      \* per sender: ids listed by the sender's latest delete search
    locks       \* per map: the task that holds its Mutex, 0 when it is free

vars == <<users, contacts, nextId, deferred, pending, now, ticks, msgs, h, log, shown, locks>>
store == <<users, contacts, nextId>>
maps == <<deferred, pending>>
clock == <<now, ticks>>

Idle ==
    [pc |-> "idle", msg |-> NoMsg,
     name |-> <<>>, cards |-> <<>>, results |-> <<>>, numbers |-> <<>>,
     updates |-> <<>>, updated |-> FALSE, new_numbers |-> <<>>,
     sel |-> <<>>, dcs |-> <<>>, successful |-> <<>>, failed |-> <<>>,
     ids |-> <<>>, invalid |-> <<>>, todo |-> <<>>, found |-> <<>>]

\* the entry that stands for the start of the process in the log
NoDeferred == [s \in Senders |-> [has |-> FALSE, list |-> <<>>]]
NoError == [call |-> "none", n |-> 0]
Boot(rows) ==
    [msg |-> NoMsg, results |-> <<>>, response |-> Rep("none"), error |-> NoError,
     rows |-> rows, seen |-> NoDeferred, defs |-> NoDeferred, at |-> 0]

\* the message most recently answered
last == log[Len(log)]

\* handle_incoming_sms: an Err of process_message is answered with the
\* generic text, an Ok with the reply itself
Response(result) ==
    IF result.err THEN InternalServerError ELSE result.reply

\* what process_message returns: a reply, or the error of the n-th call of
\* one kind (the error is written to the server's log, line 96)
Ok(reply) == [err |-> FALSE, reply |-> reply, error |-> NoError]
Err(call, n) == [err |-> TRUE, reply |-> Rep("none"), error |-> [call |-> call, n |-> n]]

\* a panic of the handler: the task of the request ends and no reply is sent
NoReply == Rep("NoReply")
Panicked == [err |-> FALSE, reply |-> NoReply, error |-> [call |-> "panic", n |-> 0]]

\* the two global maps, each behind its own Mutex
Maps == {"deferred", "pending"}
Unlocked == [l \in Maps |-> 0]

\* (variant: the guard outlives the block that took it)
KeepGuards(held, p) == held

\* the MutexGuard is dropped where its block or statement ends, which is
\* where the step that took it ends
DropGuards(held, p) == [l \in Maps |-> IF held[l] = p THEN 0 ELSE held[l]]

\* task p returns `result` for message m and becomes idle; the entry keeps
\* the deferred map before (seen) and after (defs) the step
Finish(p, m, results, result) ==
    /\ h' = [h EXCEPT ![p] = Idle]
    /\ locks' = DropGuards(locks, p)
    /\ log' = Append(Tail(log),
                      [msg |-> m, results |-> results, response |-> Response(result),
                       error |-> result.error, rows |-> contacts', seen |-> deferred,
                       defs |-> deferred', at |-> now])

\* task p goes on with locals rec
Goto(p, rec) ==
    /\ h' = [h EXCEPT ![p] = rec]
    /\ locks' = DropGuards(locks, p)
    /\ UNCHANGED log

(***************************************************************************)
(* The text path of process_message.                                       *)
(***************************************************************************)
\* (variant: the length of the name is not checked)
process_name_unbounded(words) ==
    LET name == Join(words) IN
    IF name = <<>> THEN [ok |-> FALSE, name |-> name, hint |-> Rep("NameUsage")]
    ELSE [ok |-> TRUE, name |-> name, hint |-> Rep("none")]

\* process_name: the joined words, refused when empty or too long
process_name(words) ==
    LET name == Join(words) IN
    IF name = <<>> THEN [ok |-> FALSE, name |-> name, hint |-> Rep("NameUsage")]
    ELSE IF ByteLen(name) > MAX_NAME_LEN
         THEN [ok |-> FALSE, name |-> name, hint |-> Rep("NameTooLong")]
    ELSE [ok |-> TRUE, name |-> name, hint |-> Rep("none")]

\* onboard_new_user up to its store call: the reply, or the insert to do
onboard_new_user(m) ==
    IF ParseCommand(m.cmd) # "name"
    THEN [done |-> TRUE, reply |-> Rep("Onboarding"), pc |-> "idle", name |-> <<>>]
    ELSE LET r == process_name(m.args) IN
         IF r.ok THEN [done |-> FALSE, reply |-> Rep("none"), pc |-> "onboard_insert", name |-> r.name]
         ELSE [done |-> TRUE, reply |-> r.hint, pc |-> "idle", name |-> <<>>]

Replied(reply) == [done |-> TRUE, reply |-> reply, pc |-> "idle", name |-> <<>>]
Continue(pc, name) == [done |-> FALSE, reply |-> Rep("none"), pc |-> pc, name |-> name]

\* (variant: a body with no word is answered like an unknown command)
NoWordUnrecognized == Replied(Rep("UnrecognizedCommand"))

\* lines 156-158: a body with no word gets the hint of `h`
NoWord == Replied(Rep("HintH"))

\* process_message for a sender that has a User row, up to the handler's
\* first store call or lock
dispatch_known(m) ==
    LET command == ParseCommand(m.cmd) IN
    CASE command = NoCommand -> NoWord
      [] command = Unrecognized -> Replied(Rep("UnrecognizedCommand"))
      [] command = "h" -> Replied(Rep("Help"))
      [] command = "name" ->
            LET r == process_name(m.args) IN
            IF r.ok THEN Continue("name_update", r.name) ELSE Replied(r.hint)
      [] command = "stop" -> Continue("stop_delete", <<>>)
      [] command = "info" -> Replied(Rep("Info"))
      [] command = "contacts" -> Continue("contacts_query", <<>>)
      [] command = "delete" ->
            IF Join(m.args) = <<>> THEN Replied(Rep("HintDelete"))
            ELSE Continue("del_cleanup", Join(m.args))
      [] command = "confirm" ->
            IF m.args = <<>> THEN Replied(Rep("HintConfirm"))
            ELSE Continue("cf_cleanup", <<>>)
      [] command = "pick" ->
            IF m.args = <<>> THEN Replied(Rep("HintPick"))
            ELSE Continue("pick_lock", <<>>)

\* the task that takes the next message: tasks are interchangeable, so the
\* idle task of least index takes it
Takes(p) == h[p].pc = "idle" /\ \A q \in Tasks : q < p => h[q].pc # "idle"

\* process_message, text: look the sender up and dispatch
TakeText(p, m) ==
    /\ Takes(p)
    /\ ~m.media
    /\ msgs' = msgs + 1
    /\ UNCHANGED <<store, maps, clock, shown>>
    /\ \E ok \in BOOLEAN :
          IF ~ok THEN Finish(p, m, <<>>, Err("select user", 1))
          ELSE LET d == IF users[m.from] = NoUser THEN onboard_new_user(m)
                        ELSE dispatch_known(m) IN
               IF d.done THEN Finish(p, m, <<>>, Ok(d.reply))
               ELSE Goto(p, [Idle EXCEPT !.pc = d.pc, !.msg = m, !.name = d.name,
                                         !.sel = m.args])

\* the same, while the behaviour has messages left
ProcessText(p, m) == msgs < MaxMsgs /\ TakeText(p, m)

\* onboard_new_user: insert into users (number is the primary key)
OnboardInsert(p) ==
    /\ h[p].pc = "onboard_insert"
    /\ UNCHANGED <<contacts, nextId, maps, clock, msgs, shown>>
    /\ \E ok \in BOOLEAN :
          IF ok /\ users[h[p].msg.from] = NoUser
          THEN /\ users' = [users EXCEPT ![h[p].msg.from] = h[p].name]
               /\ Finish(p, h[p].msg, <<>>, Ok(Rep("Hello")))
          ELSE /\ UNCHANGED users
               /\ Finish(p, h[p].msg, <<>>, Err("insert user", 1))

\* Command::name: update users set name
NameUpdate(p) ==
    /\ h[p].pc = "name_update"
    /\ UNCHANGED <<contacts, nextId, maps, clock, msgs, shown>>
    /\ \E ok \in BOOLEAN :
          IF ok
          THEN /\ users' = [users EXCEPT ![h[p].msg.from] =
                               IF @ = NoUser THEN @ ELSE h[p].name]
               /\ Finish(p, h[p].msg, <<>>, Ok(Rep("NameUpdated")))
          ELSE /\ UNCHANGED users
               /\ Finish(p, h[p].msg, <<>>, Err("update user", 1))

\* the store's cascade from a deleted user to the contacts that user owns
Cascade(rows, number) == {c \in rows : c.sub # number}

\* (variant: the row is kept and its name emptied)
BlankUser(u, number) == [u EXCEPT ![number] = <<>>]

\* delete from users where number = ?
DeleteUser(u, number) == [u EXCEPT ![number] = NoUser]

\* Command::stop: delete from users
StopDelete(p) ==
    /\ h[p].pc = "stop_delete"
    /\ UNCHANGED <<nextId, maps, clock, msgs, shown>>
    /\ \E ok \in BOOLEAN :
          IF ok
          THEN /\ users' = DeleteUser(users, h[p].msg.from)
               /\ contacts' = Cascade(contacts, h[p].msg.from)
               /\ Finish(p, h[p].msg, <<>>, Ok(Rep("Goodbye")))
          ELSE /\ UNCHANGED <<users, contacts>>
               /\ Finish(p, h[p].msg, <<>>, Err("delete user", 1))

\* Command::contacts: list the sender's contacts
ContactsQuery(p) ==
    /\ h[p].pc = "contacts_query"
    /\ UNCHANGED <<store, maps, clock, msgs, shown>>
    /\ \E ok \in BOOLEAN :
          IF ok
          THEN Finish(p, h[p].msg, <<>>,
                      Ok(IF \E c \in contacts : c.sub = h[p].msg.from
                         THEN Rep("ContactList") ELSE Rep("NoContacts")))
          ELSE Finish(p, h[p].msg, <<>>, Err("select contacts", 1))

(***************************************************************************)
(* add_contact, and the same transaction inlined in process_vcard.         *)
(***************************************************************************)
\* (variant: the contact is inserted and no user is made for its number)
InsertContactOnly(from, name, number) ==
    /\ users' = users
    /\ contacts' = contacts \cup
                     {[id |-> nextId, sub |-> from, name |-> name, num |-> number]}
    /\ nextId' = nextId + 1

\* the rows after the transaction commits: the target number becomes a user
\* when it is none, and one contact row is inserted
InsertContact(from, name, number) ==
    /\ users' = IF users[number] = NoUser THEN [users EXCEPT ![number] = name]
                ELSE users
    /\ contacts' = contacts \cup
                     {[id |-> nextId, sub |-> from, name |-> name, num |-> number]}
    /\ nextId' = nextId + 1

\* the store refuses a contact whose owner has no User row (the foreign key
\* behind the cascade); the owner has one when it is the target itself, which
\* the transaction has just made a user
CanInsert(from, number) == users[from] # NoUser \/ number = from

(***************************************************************************)
(* handle_pick.                                                            *)
(***************************************************************************)
\* (variant: the timestamp itself, not its age, is compared to the timeout)
FreshByStamp(c) == c.ts <= DEFERRED_TIMEOUT

\* c.timestamp.elapsed() <= DEFERRED_TIMEOUT
Fresh(c) == now - c.ts <= DEFERRED_TIMEOUT

\* deferred_map.retain: expired contacts go, and keys left with no contact
Evict(map) ==
    [s \in Senders |->
        LET kept == SelectSeq(map[s].list, Fresh) IN
        [has |-> map[s].has /\ kept # <<>>, list |-> kept]]

\* lines 273-288: sweep the map, copy the sender's list
PickLock(p) ==
    /\ h[p].pc = "pick_lock"
    /\ UNCHANGED <<store, pending, clock, msgs, shown>>
    /\ deferred' = Evict(deferred)
    /\ IF deferred'[h[p].msg.from].has
       THEN Goto(p, [h[p] EXCEPT !.pc = "pick_token",
                                 !.dcs = deferred'[h[p].msg.from].list])
       ELSE Finish(p, h[p].msg, <<>>, Ok(Rep("NoPending")))

\* (variant: the letter is taken as a 1-based index, so `a` is the 2nd number)
ResolvePickShifted(selection, dcs) ==
    IF Len(selection) < 2 THEN [ok |-> FALSE, why |-> "InvalidFormat"]
    ELSE LET n == ParseUsize(SubSeq(selection, 1, Len(selection) - 1))
             k == Code(selection[Len(selection)]) - 97 + 2
         IN
         IF n <= 0 \/ n > Len(dcs) THEN [ok |-> FALSE, why |-> "ContactNotFound"]
         ELSE IF k < 1 \/ k > Len(dcs[n].numbers)
              THEN [ok |-> FALSE, why |-> "NumberNotFound"]
         ELSE [ok |-> TRUE, name |-> dcs[n].name, number |-> dcs[n].numbers[k]]

\* lines 295-337: what one selection resolves to, against the copied list;
\* split_at(len - 1) panics when the last character takes more than a byte
ResolvePick(selection, dcs) ==
    IF ByteLen(selection) < 2 THEN [ok |-> FALSE, why |-> "InvalidFormat"]
    ELSE IF Utf8Len(selection[Len(selection)]) > 1 THEN [ok |-> FALSE, why |-> "panic"]
    ELSE LET num_str == SubSeq(selection, 1, Len(selection) - 1)
             letter == selection[Len(selection)]
             n == ParseUsize(num_str)
         IN
         IF n <= 0 THEN [ok |-> FALSE, why |-> "InvalidContactNumber"]
         ELSE IF ~IsLowerLetter(letter) THEN [ok |-> FALSE, why |-> "InvalidLetter"]
         ELSE IF n > Len(dcs) THEN [ok |-> FALSE, why |-> "ContactNotFound"]
         ELSE IF Code(letter) - 97 + 1 > Len(dcs[n].numbers)
              THEN [ok |-> FALSE, why |-> "NumberNotFound"]
         ELSE [ok |-> TRUE, name |-> dcs[n].name,
               number |-> dcs[n].numbers[Code(letter) - 97 + 1]]

PickAdvance(p, rec) ==
    Goto(p, [rec EXCEPT !.sel = Tail(@),
                        !.pc = IF Tail(h[p].sel) = <<>> THEN "pick_clear" ELSE "pick_token"])

\* lines 294-348: one selection of the loop, with its add_contact
PickToken(p) ==
    /\ h[p].pc = "pick_token"
    /\ UNCHANGED <<maps, clock, msgs, shown>>
    /\ LET r == ResolvePick(Head(h[p].sel), h[p].dcs) IN
       IF ~r.ok /\ r.why = "panic"
       THEN /\ UNCHANGED store
            /\ Finish(p, h[p].msg, <<>>, Panicked)
       ELSE IF ~r.ok
       THEN /\ UNCHANGED store
            /\ PickAdvance(p, [h[p] EXCEPT !.failed = Append(@, Item(r.why))])
       ELSE \E ok \in BOOLEAN :
               IF ok /\ CanInsert(h[p].msg.from, r.number)
               THEN /\ InsertContact(h[p].msg.from, r.name, r.number)
                    /\ PickAdvance(p, [h[p] EXCEPT !.successful =
                           Append(@, [name |-> r.name, num |-> r.number])])
               ELSE /\ UNCHANGED store
                    /\ PickAdvance(p, [h[p] EXCEPT !.failed =
                           Append(@, ItemWith("FailedToAdd", StoreErrorText))])

\* (variant: the predicate of the sweep is used, so only expired contacts go)
ClearExpired(map, from) ==
    IF map[from].has THEN [map EXCEPT ![from].list = SelectSeq(@, Fresh)] ELSE map

\* contacts.retain(|_| false) on the sender's entry
ClearList(map, from) ==
    IF map[from].has THEN [map EXCEPT ![from].list = <<>>] ELSE map

\* lines 350-382: empty the sender's list and reply
PickClear(p) ==
    /\ h[p].pc = "pick_clear"
    /\ UNCHANGED <<store, pending, clock, msgs, shown>>
    /\ deferred' = ClearList(deferred, h[p].msg.from)
    /\ Finish(p, h[p].msg, <<>>,
              Ok(RepList("PickResult", h[p].successful, h[p].failed)))

(***************************************************************************)
(* The card path of process_message, and process_vcard.                    *)
(***************************************************************************)
Range(f) == {f[i] : i \in DOMAIN f}

\* stats.add_error(&e.to_string()): the line the report shows for a card
\* that ended in Err, with the text of the error when a store call failed
\* (the other errors are the fixed texts of bail! and ok_or_else)
ErrorLine(result) ==
    IF result = "StoreError" THEN ItemWith("ImportError", StoreErrorText)
    ELSE Item(result)
IsError(result) == result \in {"StoreError", "SetNameFirst", "NoName", "NoValidNumbers"}
\* lines 810-815: the lines of the cards that ended in Err
RECURSIVE ErrorLines(_)
ErrorLines(results) ==
    IF results = <<>> THEN <<>>
    ELSE IF IsError(Head(results))
         THEN <<ErrorLine(Head(results))>> \o ErrorLines(Tail(results))
    ELSE ErrorLines(Tail(results))

\* lines 130-140: count the card's outcome, then the next card or the report
CardDone(p, result) ==
    LET rs == Append(h[p].results, result)
        rest == Tail(h[p].cards)
        base == [Idle EXCEPT !.msg = h[p].msg, !.cards = rest, !.results = rs]
    IN
    IF rest # <<>> THEN Goto(p, [base EXCEPT !.pc = "vc_user"])
    ELSE IF "Deferred" \in Range(rs) THEN Goto(p, [base EXCEPT !.pc = "vc_report"])
    ELSE Finish(p, h[p].msg, rs, Ok(RepList("Report", <<>>, ErrorLines(rs))))

\* lines 121-128: fetch and decode the media of the message
TakeCards(p, m) ==
    /\ Takes(p)
    /\ m.media
    /\ m.cards # <<>>
    /\ msgs' = msgs + 1
    /\ UNCHANGED <<store, maps, clock, shown>>
    /\ \E ok \in BOOLEAN :
          IF ok THEN Goto(p, [Idle EXCEPT !.pc = "vc_user", !.msg = m, !.cards = m.cards])
          ELSE Finish(p, m, <<>>, Err("fetch media", 1))

\* the same, while the behaviour has messages left
ProcessCards(p, m) == msgs < MaxMsgs /\ TakeCards(p, m)

\* lines 607-621: the TEL values that canonicalize, in card order
RECURSIVE Canonical(_)
Canonical(tels) ==
    IF tels = <<>> THEN <<>>
    ELSE LET n == E164_from_str(Head(tels)) IN
         IF n = NoNumber THEN Canonical(Tail(tels))
         ELSE <<n>> \o Canonical(Tail(tels))

\* lines 589-625: the sender must be a user, the card must have a name and
\* a number
VcUser(p) ==
    /\ h[p].pc = "vc_user"
    /\ UNCHANGED <<store, maps, clock, msgs, shown>>
    /\ LET card == Head(h[p].cards)
           numbers == Canonical(card.tels)
       IN
       \E ok \in BOOLEAN :
          IF ~ok THEN CardDone(p, "StoreError")
          ELSE IF users[h[p].msg.from] = NoUser THEN CardDone(p, "SetNameFirst")
          ELSE IF ~card.has_fn THEN CardDone(p, "NoName")
          ELSE IF numbers = <<>> THEN CardDone(p, "NoValidNumbers")
          ELSE Goto(p, [h[p] EXCEPT !.pc = "vc_existing", !.name = card.fn,
                                    !.numbers = numbers])

\* what existing_contacts.iter().find(..) returns for each number: one of the
\* sender's rows with that number, the same one every time it is asked
FirstMatches(rows) ==
    {ex \in SUBSET rows :
        /\ \A c \in rows : \E e \in ex : e.num = c.num
        /\ \A e1, e2 \in ex : e1.num = e2.num => e1 = e2}

Known(ex, num) == \E e \in ex : e.num = num
NameOf(ex, num) == (CHOOSE e \in ex : e.num = num).name

\* lines 638-658 without the store calls: the numbers whose stored name
\* differs, and the numbers that are new, both in card order
NeedUpdate(ex, name, numbers) ==
    SelectSeq(numbers, LAMBDA n : Known(ex, n) /\ NameOf(ex, n) # name)
\* (variant: every number of the card counts as new)
NewNumbersAll(ex, numbers) == numbers

NewNumbers(ex, numbers) ==
    SelectSeq(numbers, LAMBDA n : ~Known(ex, n))

\* lines 660-683: after the loop
VcDecide(p, rec) ==
    IF rec.new_numbers = <<>>
    THEN CardDone(p, IF rec.updated THEN "Updated" ELSE "Unchanged")
    ELSE IF Len(rec.new_numbers) > 1 THEN Goto(p, [rec EXCEPT !.pc = "vc_defer"])
    ELSE Goto(p, [rec EXCEPT !.pc = "vc_insert"])

\* lines 628-633: read the sender's contacts
VcExisting(p) ==
    /\ h[p].pc = "vc_existing"
    /\ UNCHANGED <<store, maps, clock, msgs, shown>>
    /\ \E ok \in BOOLEAN :
          IF ~ok THEN CardDone(p, "StoreError")
          ELSE \E ex \in FirstMatches({c \in contacts : c.sub = h[p].msg.from}) :
                 LET rec == [h[p] EXCEPT
                               !.updates = NeedUpdate(ex, h[p].name, h[p].numbers),
                               !.new_numbers = NewNumbers(ex, h[p].numbers)]
                 IN IF rec.updates # <<>> THEN Goto(p, [rec EXCEPT !.pc = "vc_update"])
                    ELSE VcDecide(p, rec)

\* (variant: the WHERE clause leaves the number out)
UpdateNameOfAll(rows, from, num, name) ==
    {IF c.sub = from THEN [c EXCEPT !.name = name] ELSE c : c \in rows}

\* UPDATE contacts SET contact_name WHERE submitter_number AND contact_user_number
UpdateName(rows, from, num, name) ==
    {IF c.sub = from /\ c.num = num THEN [c EXCEPT !.name = name] ELSE c : c \in rows}

\* lines 643-654: one name update of the loop
VcUpdate(p) ==
    /\ h[p].pc = "vc_update"
    /\ UNCHANGED <<users, nextId, maps, clock, msgs, shown>>
    /\ \E ok \in BOOLEAN :
          IF ~ok THEN UNCHANGED contacts /\ CardDone(p, "StoreError")
          ELSE /\ contacts' = UpdateName(contacts, h[p].msg.from, Head(h[p].updates), h[p].name)
               /\ LET rec == [h[p] EXCEPT !.updates = Tail(@), !.updated = TRUE] IN
                  IF rec.updates # <<>> THEN Goto(p, rec) ELSE VcDecide(p, rec)

\* deferred_contacts.entry(from).or_default().push(deferred)
PushDeferred(map, from, d) ==
    [map EXCEPT ![from] = [has |-> TRUE, list |-> Append(@.list, d)]]

\* lines 668-682: keep the card for a later pick
VcDefer(p) ==
    /\ h[p].pc = "vc_defer"
    /\ UNCHANGED <<store, pending, clock, msgs, shown>>
    /\ deferred' = PushDeferred(deferred, h[p].msg.from,
                      [name |-> h[p].name, numbers |-> h[p].new_numbers, ts |-> now])
    /\ CardDone(p, "Deferred")

\* lines 685-716: the single new number is inserted in one transaction
VcInsert(p) ==
    /\ h[p].pc = "vc_insert"
    /\ UNCHANGED <<maps, clock, msgs, shown>>
    /\ \E ok \in BOOLEAN :
          IF ok /\ CanInsert(h[p].msg.from, h[p].new_numbers[1])
          THEN /\ InsertContact(h[p].msg.from, h[p].name, h[p].new_numbers[1])
               /\ CardDone(p, "Added")
          ELSE /\ UNCHANGED store
               /\ CardDone(p, "StoreError")

\* ImportStats::format_report: the sender's deferred list goes into the reply
VcReport(p) ==
    /\ h[p].pc = "vc_report"
    /\ UNCHANGED <<store, maps, clock, msgs, shown>>
    /\ Finish(p, h[p].msg, h[p].results,
              Ok(RepList("Report",
                         IF deferred[h[p].msg.from].has
                         THEN deferred[h[p].msg.from].list ELSE <<>>,
                         ErrorLines(h[p].results))))

(***************************************************************************)
(* handle_delete and handle_confirm.                                       *)
(***************************************************************************)
Live(d) == now - d.ts <= DELETION_TIMEOUT

\* cleanup_pending_deletions
Sweep(map) == {d \in map : Live(d)}

\* HashMap::insert under the token "from:ordinal"
PutToken(map, from, ord, id) ==
    {d \in map : ~(d.sub = from /\ d.ord = ord)}
        \cup {[sub |-> from, ord |-> ord, id |-> id, ts |-> now]}

\* line 386
DelCleanup(p) ==
    /\ h[p].pc = "del_cleanup"
    /\ UNCHANGED <<store, deferred, clock, msgs, shown>>
    /\ pending' = Sweep(pending)
    /\ Goto(p, [h[p] EXCEPT !.pc = "del_query"])

\* WHERE submitter_number = ? AND LOWER(contact_name) LIKE %lowercased text%
Matches(rows, from, text) ==
    {c \in rows : c.sub = from /\ Contains(to_lowercase(c.name), to_lowercase(text))}

\* ORDER BY contact_name: any order of the rows that is sorted by name
Ordered(rows) ==
    {q \in [1..Cardinality(rows) -> rows] :
        /\ \A i, j \in DOMAIN q : i < j => q[i] # q[j] /\ ~StrLess(q[j].name, q[i].name)}

\* lines 388-420: the search and the reply built from it
DelQuery(p) ==
    /\ h[p].pc = "del_query"
    /\ UNCHANGED <<store, maps, clock, msgs>>
    /\ \E ok \in BOOLEAN :
          IF ~ok THEN UNCHANGED shown /\ Finish(p, h[p].msg, <<>>, Err("select contacts", 1))
          ELSE \E q \in Ordered(Matches(contacts, h[p].msg.from, h[p].name)) :
                 /\ shown' = [shown EXCEPT ![h[p].msg.from] = [i \in DOMAIN q |-> q[i].id]]
                 /\ IF q = <<>>
                    THEN Finish(p, h[p].msg, <<>>, Ok(RepList("Found", <<>>, <<>>)))
                    ELSE Goto(p, [h[p] EXCEPT !.pc = "del_store", !.found = q,
                                              !.todo = [i \in DOMAIN q |-> q[i].id]])

\* lines 423-432: one token of the loop, each under its own lock
DelStore(p) ==
    /\ h[p].pc = "del_store"
    /\ UNCHANGED <<store, deferred, clock, msgs, shown>>
    /\ LET ord == Len(h[p].found) - Len(h[p].todo) + 1 IN
       pending' = PutToken(pending, h[p].msg.from, ord, Head(h[p].todo))
    /\ IF Tail(h[p].todo) = <<>>
       THEN Finish(p, h[p].msg, <<>>, Ok(RepList("Found", h[p].found, <<>>)))
       ELSE Goto(p, [h[p] EXCEPT !.todo = Tail(@)])

\* line 442
CfCleanup(p) ==
    /\ h[p].pc = "cf_cleanup"
    /\ UNCHANGED <<store, deferred, clock, msgs, shown>>
    /\ pending' = Sweep(pending)
    /\ Goto(p, [h[p] EXCEPT !.pc = "cf_resolve"])

HasToken(map, from, ord) == \E d \in map : d.sub = from /\ d.ord = ord
TokenId(map, from, ord) == (CHOOSE d \in map : d.sub = from /\ d.ord = ord).id

\* lines 450-462: the ids and the errors of the selections, in order
RECURSIVE Resolve(_, _, _)
Resolve(sel, map, from) ==
    IF sel = <<>> THEN [ids |-> <<>>, invalid |-> <<>>]
    ELSE LET rest == Resolve(Tail(sel), map, from)
             num == ParseUsize(Head(sel))
         IN
         IF num > 0 /\ HasToken(map, from, num)
         THEN [rest EXCEPT !.ids = <<TokenId(map, from, num)>> \o @]
         ELSE IF num > 0
              THEN [rest EXCEPT !.invalid = <<Item("InvalidSelection")>> \o @]
              ELSE [rest EXCEPT !.invalid = <<Item("InvalidNumber")>> \o @]

\* lines 445-473: resolve the selections under the lock
CfResolve(p) ==
    /\ h[p].pc = "cf_resolve"
    /\ UNCHANGED <<store, maps, clock, msgs, shown>>
    /\ LET r == Resolve(h[p].sel, pending, h[p].msg.from) IN
       IF r.ids = <<>>
       THEN Finish(p, h[p].msg, <<>>,
                   Ok(IF r.invalid = <<>> THEN Rep("NoValidSelections")
                      ELSE RepList("Errors", <<>>, r.invalid)))
       ELSE Goto(p, [h[p] EXCEPT !.pc = "cf_fetch", !.ids = r.ids,
                                 !.invalid = r.invalid, !.todo = r.ids])

\* lines 479-490: read one contact for the reply
CfFetch(p) ==
    /\ h[p].pc = "cf_fetch"
    /\ UNCHANGED <<store, maps, clock, msgs, shown>>
    /\ \E ok \in BOOLEAN :
          IF ~ok THEN Finish(p, h[p].msg, <<>>,
                             Err("select contact", Len(h[p].ids) - Len(h[p].todo) + 1))
          ELSE LET got == {c \in contacts : c.id = Head(h[p].todo)}
                   rec == [h[p] EXCEPT
                             !.todo = Tail(@),
                             !.found = IF got = {} THEN @
                                       ELSE Append(@, CHOOSE c \in got : TRUE),
                             !.pc = IF Tail(h[p].todo) = <<>> THEN "cf_begin" ELSE @]
               IN Goto(p, rec)

\* line 493: pool.begin()
CfBegin(p) ==
    /\ h[p].pc = "cf_begin"
    /\ UNCHANGED <<store, maps, clock, msgs, shown>>
    /\ \E ok \in BOOLEAN :
          IF ok THEN Goto(p, [h[p] EXCEPT !.pc = "cf_del", !.todo = h[p].ids])
          ELSE Finish(p, h[p].msg, <<>>, Err("begin", 1))

\* (variant: the DELETE runs on the pool, outside the transaction)
DeleteNow(rows, id) == {c \in rows : c.id # id}

\* the committed rows after a DELETE was executed on the open transaction
DeleteInTx(rows, id) == rows

\* lines 494-498: one DELETE of the loop; an Err drops the transaction, which
\* rolls it back
CfDeleteOne(p) ==
    /\ h[p].pc = "cf_del"
    /\ UNCHANGED <<users, nextId, maps, clock, msgs, shown>>
    /\ \E ok \in BOOLEAN :
          IF ok THEN /\ contacts' = DeleteInTx(contacts, Head(h[p].todo))
                     /\ Goto(p, [h[p] EXCEPT !.todo = Tail(@),
                                    !.pc = IF Tail(h[p].todo) = <<>> THEN "cf_commit" ELSE @])
          ELSE /\ UNCHANGED contacts
               /\ Finish(p, h[p].msg, <<>>,
                         Err("delete contact", Len(h[p].ids) - Len(h[p].todo) + 1))

\* the rows left when the delete transaction commits
DeleteRows(rows, ids) == {c \in rows : c.id \notin Range(ids)}

\* line 499: tx.commit()
CfCommit(p) ==
    /\ h[p].pc = "cf_commit"
    /\ UNCHANGED <<users, nextId, maps, clock, msgs, shown>>
    /\ \E ok \in BOOLEAN :
          IF ok THEN /\ contacts' = DeleteRows(contacts, h[p].ids)
                     /\ Goto(p, [h[p] EXCEPT !.pc = "cf_purge"])
          ELSE /\ UNCHANGED contacts
               /\ Finish(p, h[p].msg, <<>>, Err("commit", 1))

\* lines 503-506: drop the tokens of the contacts that were read and deleted
Purge(map, found) == {d \in map : \A i \in DOMAIN found : d.id # found[i].id}

\* lines 502-528
CfPurge(p) ==
    /\ h[p].pc = "cf_purge"
    /\ UNCHANGED <<store, deferred, clock, msgs, shown>>
    /\ pending' = Purge(pending, h[p].found)
    /\ Finish(p, h[p].msg, <<>>, Ok(RepList("Deleted", h[p].found, h[p].invalid)))

(***************************************************************************)
(* Time.                                                                   *)
(***************************************************************************)
Tick ==
    /\ ticks < MaxTicks
    /\ ticks' = ticks + 1
    /\ \E d \in {DEFERRED_TIMEOUT, DELETION_TIMEOUT} :
          now' \in {now + d, now + d + TickStep}
    /\ UNCHANGED <<store, maps, msgs, h, log, shown, locks>>

(***************************************************************************)
(* Inbound messages.                                                       *)
(***************************************************************************)
Text(from, cmd, args) ==
    [from |-> from, media |-> FALSE, cmd |-> cmd, args |-> args, cards |-> <<>>]
Media(from, cards) ==
    [from |-> from, media |-> TRUE, cmd |-> "", args |-> <<>>, cards |-> cards]
Card(fn, tels) == [has_fn |-> TRUE, fn |-> fn, tels |-> tels]
Nameless(tels) == [has_fn |-> FALSE, fn |-> <<>>, tels |-> tels]

CardTwo == Card(<<"a">>, <<"+12", "+13">>)
CardSame == Card(<<"a">>, <<"+13", "(1)3">>)
CardOne == Card(<<"a">>, <<"+13", "junk">>)
CardRenamed == Card(<<"A", "b">>, <<"+13">>)

\* the argument of pick and confirm as selections.split(',').map(str::trim)
\* yields it: the selections in order, each a string
Sel_1a == << <<"1", "a">> >>
Sel_1a1a == << <<"1", "a">>, <<"1", "a">> >>
Sel_1b2a == << <<"1", "b">>, <<"2", "a">> >>
Sel_bad == << <<"a">>, <<"0", "a">>, <<"1", "A">>, <<"1", "x">> >>

(***************************************************************************)
(* Initial states: the rows the store holds when the process starts, and   *)
(* both maps empty.  `window` is how many answered messages the log keeps. *)
(***************************************************************************)
NoRows == [n \in Numbers |-> NoUser]
AllKnown == [n \in Numbers |-> IF n \in Senders THEN <<"a">> ELSE NoUser]

Start(u, rows, window) ==
    /\ users = u
    /\ contacts = rows
    /\ nextId = Cardinality(rows) + 1
    /\ deferred = NoDeferred
    /\ pending = {}
    /\ now = 0
    /\ ticks = 0
    /\ msgs = 0
    /\ h = [p \in Tasks |-> Idle]
    /\ log = [i \in 1..window |-> Boot(rows)]
    /\ shown = [s \in Senders |-> <<>>]
    /\ locks = Unlocked

AllIdle == \A p \in Tasks : h[p].pc = "idle"

\* a message arrives and a task takes it
Receive(M) ==
    \E p \in Tasks : \E m \in M :
        msgs < MaxOverlap /\ (ProcessText(p, m) \/ ProcessCards(p, m))

\* a text message arrives and a task takes it
ReceiveText(M) ==
    \E p \in Tasks : \E m \in M : msgs < MaxOverlap /\ ProcessText(p, m)

\* a text message arrives when no other message is being handled
ReceiveTextAlone(M) == \E p \in Tasks : \E m \in M : AllIdle /\ ProcessText(p, m)

\* a message arrives when no other is being handled
ReceiveAlone(M) ==
    \E p \in Tasks : \E m \in M : AllIdle /\ (ProcessText(p, m) \/ ProcessCards(p, m))

\* a message arrives and an idle task takes it, whatever the other tasks
\* are handling
ReceiveAny(M) ==
    \E p \in Tasks : \E m \in M : ProcessText(p, m) \/ ProcessCards(p, m)

\* a text message arrives and an idle task takes it, whatever the other
\* tasks are handling
ReceiveTextAny(M) == \E p \in Tasks : \E m \in M : ProcessText(p, m)

\* a message arrives when no other is being handled, in a behaviour of up to
\* MaxRejoin messages
ReceiveRejoin(M) ==
    \E p \in Tasks : \E m \in M :
        AllIdle /\ msgs < MaxRejoin /\ (TakeText(p, m) \/ TakeCards(p, m))

PickSteps == \E p \in Tasks : PickLock(p) \/ PickToken(p) \/ PickClear(p)

(***************************************************************************)
(* SpecPick: known senders import cards and pick from the deferred ones,   *)
(* concurrently, while the clock advances.                                 *)
(***************************************************************************)
PickMsgs ==
    {Media("+11", <<c>>) : c \in {CardTwo, CardSame, CardOne}}
        \cup {Text("+11", "pick", a) : a \in {Sel_1a, Sel_1a1a, Sel_1b2a, Sel_bad}}
        \cup {Media("+12", <<CardTwo>>), Text("+12", "pick", Sel_1a)}

InitPick == Start(AllKnown, {}, 1)
NextPick ==
    \/ Receive(PickMsgs)
    \/ \E p \in Tasks : VcUser(p) \/ VcExisting(p) \/ VcDefer(p) \/ VcInsert(p) \/ VcReport(p)
    \/ PickSteps
    \/ Tick
SpecPick == InitPick /\ [][NextPick]_vars

\* C1: in every reachable state the contact store holds at most one row for
\* each (submitter_number, contact_user_number) pair.
UniquePairs ==
    \A c1, c2 \in contacts : (c1.sub = c2.sub /\ c1.num = c2.num) => c1 = c2

\* the step in which task p leaves position pc
Leaves(p, pc) == h[p].pc = pc /\ h'[p] # h[p]

Expired(d) == now - d.ts > DEFERRED_TIMEOUT

NoRawStoreError ==
    \A f \in Range(last.response.failed) : f.text # StoreErrorText

(***************************************************************************)
(* SpecRound: a known sender imports cards and picks, one message at a     *)
(* time, while the clock advances; the log keeps the last answered         *)
(* messages and what preceded them.                                        *)
(***************************************************************************)
RoundMsgs ==
    {Media("+11", <<c>>) : c \in {CardOne, CardRenamed, CardTwo}}
        \cup {Text("+11", "pick", Sel_1a)}

InitRound == Start(AllKnown, {}, 4)
NextRound ==
    \/ ReceiveAlone(RoundMsgs)
    \/ \E p \in Tasks :
          \/ VcUser(p) \/ VcExisting(p) \/ VcUpdate(p) \/ VcDefer(p)
          \/ VcInsert(p) \/ VcReport(p)
    \/ PickSteps
    \/ Tick
SpecRound == InitRound /\ [][NextRound]_vars

ModelCards == {CardOne, CardRenamed, CardTwo, CardSame}

\* entry e answers the import of the single card c by sender s
Imports(e, s, c) == e.msg.media /\ e.msg.from = s /\ e.msg.cards = <<c>>
\* entry e answers `pick 1a` of sender s
Picks1a(e, s) == ~e.msg.media /\ e.msg.cmd = "pick" /\ e.msg.from = s /\ e.msg.args = Sel_1a
\* a store or network call failed while the message of entry e was handled
Faulted(e) ==
    \/ e.response = InternalServerError
    \/ "StoreError" \in Range(e.results)
    \/ \E f \in Range(e.response.failed) : f.why = "FailedToAdd"
RowsOf(rows, s, n) == {r \in rows : r.sub = s /\ r.num = n}

\* C5: for a known submitter with no pending deferral, importing a card with
\* 2 valid numbers it does not own yields Deferred and inserts nothing; a
\* following `pick 1a` within the TTL inserts exactly one contact, the card's
\* name with its first number, and leaves the submitter's deferred list
\* empty; a second `pick 1a` inserts nothing and answers that nothing is
\* pending (store failures aside).
DeferralRoundTrip ==
    \A i \in 2..Len(log) : \A s \in Senders : \A c \in ModelCards :
        LET nums == Canonical(c.tels) IN
        ( /\ Imports(log[i], s, c) /\ c.has_fn /\ Len(nums) = 2
          /\ users[s] # NoUser
          /\ \A n \in Range(nums) : RowsOf(log[i-1].rows, s, n) = {}
          /\ log[i-1].defs[s].list = <<>>
          /\ ~Faulted(log[i]) )
        => /\ log[i].results = <<"Deferred">>
           /\ log[i].rows = log[i-1].rows
           /\ ( /\ i + 1 <= Len(log) /\ Picks1a(log[i+1], s) /\ ~Faulted(log[i+1])
                /\ log[i+1].at - log[i-1].at <= DEFERRED_TIMEOUT )
              => /\ \E r \in log[i+1].rows :
                      /\ r.sub = s /\ r.name = c.fn /\ r.num = nums[1]
                      /\ r \notin log[i].rows
                      /\ log[i+1].rows = log[i].rows \cup {r}
                 /\ log[i+1].defs[s].list = <<>>
                 /\ ( i + 2 <= Len(log) /\ Picks1a(log[i+2], s)
                      /\ log[i+2].response # InternalServerError )
                    => /\ log[i+2].response.kind = "NoPending"
                       /\ log[i+2].rows = log[i+1].rows

\* C5 witness: the three messages of the round trip, answered in a row.
RoundTripSeen ==
    /\ Imports(log[2], "+11", CardTwo) /\ log[2].results = <<"Deferred">>
    /\ Picks1a(log[3], "+11") /\ log[3].response.kind = "PickResult"
    /\ Cardinality(log[3].rows) = Cardinality(log[2].rows) + 1
    /\ Picks1a(log[4], "+11") /\ log[4].response.kind = "NoPending"

\* C6: for a known submitter and a card with one valid number the submitter
\* does not own, the import yields Added and leaves exactly one row for the
\* pair; importing the same card again yields Unchanged and changes no row
\* (store failures aside).
ImportIdempotent ==
    \A i \in 2..Len(log) : \A s \in Senders : \A c \in ModelCards :
        LET nums == Canonical(c.tels) IN
        ( /\ Imports(log[i], s, c) /\ c.has_fn /\ Len(nums) = 1
          /\ users[s] # NoUser
          /\ RowsOf(log[i-1].rows, s, nums[1]) = {}
          /\ ~Faulted(log[i]) )
        => /\ log[i].results = <<"Added">>
           /\ Cardinality(RowsOf(log[i].rows, s, nums[1])) = 1
           /\ Cardinality(log[i].rows) = Cardinality(log[i-1].rows) + 1
           /\ ( i + 1 <= Len(log) /\ Imports(log[i+1], s, c) /\ ~Faulted(log[i+1]) )
              => /\ log[i+1].results = <<"Unchanged">>
                 /\ log[i+1].rows = log[i].rows

\* C6 witness: the same one-number card imported twice in a row.
ImportedTwice ==
    \E i \in 2..3 :
        /\ Imports(log[i], "+11", CardOne) /\ log[i].results = <<"Added">>
        /\ Imports(log[i+1], "+11", CardOne) /\ log[i+1].results = <<"Unchanged">>

\* C7: for numbers the submitter owns under another name, importing a card
\* with those numbers yields Updated, overwrites the stored name of those
\* rows and of no other, and adds no row; importing the same card again
\* yields Unchanged and changes nothing (store failures aside).
RenameIdempotent ==
    \A i \in 2..Len(log) : \A s \in Senders : \A c \in ModelCards :
        LET nums == Canonical(c.tels)
            hit(r) == r.sub = s /\ r.num \in Range(nums)
        IN
        ( /\ Imports(log[i], s, c) /\ c.has_fn /\ nums # <<>>
          /\ users[s] # NoUser
          /\ \A n \in Range(nums) :
                /\ RowsOf(log[i-1].rows, s, n) # {}
                /\ \A r \in RowsOf(log[i-1].rows, s, n) : r.name # c.fn
          /\ ~Faulted(log[i]) )
        => /\ log[i].results = <<"Updated">>
           /\ log[i].rows =
                 {IF hit(r) THEN [r EXCEPT !.name = c.fn] ELSE r : r \in log[i-1].rows}
           /\ ( i + 1 <= Len(log) /\ Imports(log[i+1], s, c) /\ ~Faulted(log[i+1]) )
              => /\ log[i+1].results = <<"Unchanged">>
                 /\ log[i+1].rows = log[i].rows

\* C7 witness: a card added, then imported under a new name twice in a row.
RenamedTwice ==
    /\ Imports(log[2], "+11", CardOne) /\ log[2].results = <<"Added">>
    /\ Imports(log[3], "+11", CardRenamed) /\ log[3].results = <<"Updated">>
    /\ Imports(log[4], "+11", CardRenamed) /\ log[4].results = <<"Unchanged">>
    /\ \E r \in log[4].rows : r.name = CardRenamed.fn

(***************************************************************************)
(* SpecDeleteAlone: senders that own contacts search them with `delete`    *)
(* and `confirm` ordinals, one message at a time, while the clock          *)
(* advances.  SpecDelete is the same with the messages handled             *)
(* concurrently.                                                           *)
(***************************************************************************)
SeedUsers == [AllKnown EXCEPT !["+13"] = <<"A", "b">>]
SeedRows ==
    {[id |-> 1, sub |-> "+11", name |-> <<"a">>, num |-> "+12"],
     [id |-> 2, sub |-> "+11", name |-> <<"A", "b">>, num |-> "+13"],
     [id |-> 3, sub |-> "+12", name |-> <<"a">>, num |-> "+13"]}

Sel_1 == << <<"1">> >>
Sel_2 == << <<"2">> >>
Sel_12 == << <<"1">>, <<"2">> >>
Sel_0x1 == << <<"0">>, <<"x">>, <<"1">> >>

DeleteMsgs ==
    {Text("+11", "delete", << <<c>> >>) : c \in {"a", "b"}}
        \cup {Text("+11", "confirm", a) : a \in {Sel_1, Sel_2, Sel_12, Sel_0x1}}
        \cup {Text("+12", "delete", << <<"A">> >>), Text("+12", "confirm", Sel_1)}

DeleteSteps ==
    \E p \in Tasks :
        \/ DelCleanup(p) \/ DelQuery(p) \/ DelStore(p)
        \/ CfCleanup(p) \/ CfResolve(p) \/ CfFetch(p)
        \/ CfBegin(p) \/ CfDeleteOne(p) \/ CfCommit(p) \/ CfPurge(p)

InitDelete == Start(SeedUsers, SeedRows, 1)
NextDeleteAlone == ReceiveTextAlone(DeleteMsgs) \/ DeleteSteps \/ Tick
SpecDeleteAlone == InitDelete /\ [][NextDeleteAlone]_vars

NextDelete == ReceiveText(DeleteMsgs) \/ DeleteSteps \/ Tick
SpecDelete == InitDelete /\ [][NextDelete]_vars

InConfirmTx(p) == h[p].pc \in {"cf_begin", "cf_del", "cf_commit"}

\* C2: confirm deletes all-or-nothing: no step of the delete transaction
\* before its commit changes the contact table; a failure of begin, of any
\* DELETE or of the commit ends the confirm with the generic failure reply
\* and leaves the table as it was; a successful commit removes every
\* collected id at once.
ConfirmAllOrNothing ==
    [][\A p \in Tasks :
        (InConfirmTx(p) /\ h'[p] # h[p]) =>
            IF h'[p].pc = "idle"
            THEN /\ contacts' = contacts
                 /\ last'.response = InternalServerError
                 /\ last'.msg = h[p].msg
            ELSE IF h[p].pc = "cf_commit"
            THEN /\ h'[p].pc = "cf_purge"
                 /\ contacts' = {c \in contacts : c.id \notin Range(h[p].ids)}
            ELSE contacts' = contacts
      ]_vars

\* C2 witness: a confirm of two valid ordinals failed on its 2nd DELETE and
\* both contacts are still in the table.
SecondDeleteFailed ==
    /\ last.msg.cmd = "confirm" /\ last.msg.args = Sel_12
    /\ last.response = InternalServerError
    /\ last.error = [call |-> "delete contact", n |-> 2]
    /\ \A i \in {1, 2} : \E c \in contacts : c.id = i

\* the entry that token (from, ord) names
Entry(map, from, ord) == CHOOSE d \in map : d.sub = from /\ d.ord = ord
\* the ordinals of the selections of task p that name a token
Resolved(p) ==
    {n \in {ParseUsize(h[p].sel[i]) : i \in DOMAIN h[p].sel} :
        n > 0 /\ HasToken(pending, h[p].msg.from, n)}

\* C4: a pending deletion older than the 5-minute TTL is never resolved by a
\* confirm: every token a confirm resolves is at most 5 minutes old when it
\* is looked up.
ExpiredPendingUnreachable ==
    [][\A p \in Tasks :
        Leaves(p, "cf_resolve") =>
            \A n \in Resolved(p) :
                now - Entry(pending, h[p].msg.from, n).ts <= DELETION_TIMEOUT
      ]_vars

\* C8: whenever `confirm n` of submitter S resolves ordinal n to a contact,
\* that contact is at position n of S's most recent delete result.
ConfirmAgainstLatestSearch ==
    [][\A p \in Tasks :
        Leaves(p, "cf_resolve") =>
            \A n \in Resolved(p) :
                /\ n <= Len(shown[h[p].msg.from])
                /\ Entry(pending, h[p].msg.from, n).id = shown[h[p].msg.from][n]
      ]_vars

(***************************************************************************)
(* SpecOnboard: senders that have no User row when the process starts send *)
(* every kind of text message, concurrently.                               *)
(***************************************************************************)
NameArgs == {<<>>, << <<"a">> >>, << <<"a">>, <<"b">> >>, <<LongWord>>}
OnboardTexts ==
    {Text(s, w, <<>>) : s \in Senders,
                        w \in {"", "hello", "h", "info", "contacts", "stop", "delete",
                               "confirm", "pick"}}
        \cup {Text(s, "name", a) : s \in Senders, a \in NameArgs}
        \cup {Text(s, "delete", << <<"a">> >>) : s \in Senders}
        \cup {Text(s, "confirm", Sel_1) : s \in Senders}
        \cup {Text(s, "pick", Sel_1a) : s \in Senders}

InitOnboard == Start(NoRows, {}, 1)
NextOnboard ==
    \/ ReceiveText(OnboardTexts)
    \/ \E p \in Tasks :
          \/ OnboardInsert(p) \/ NameUpdate(p) \/ StopDelete(p) \/ ContactsQuery(p)
          \/ DelCleanup(p) \/ DelQuery(p) \/ CfCleanup(p) \/ CfResolve(p) \/ PickLock(p)
SpecOnboard == InitOnboard /\ [][NextOnboard]_vars

\* a `name <text>` message whose text is 1 to 20 characters long
ValidName(m) ==
    /\ m.cmd = "name"
    /\ Join(m.args) # <<>>
    /\ Len(Join(m.args)) <= MAX_NAME_LEN

\* the step in which a task takes a message and answers it at once
Answers == msgs' = msgs + 1 /\ h' = h
\* the step in which task p takes a message and goes on handling it
Keeps(p) == msgs' = msgs + 1 /\ h'[p] # h[p]

\* C10, as claimed: for a sender with no User row, every text input other
\* than a valid `name <text>` returns the onboarding prompt and creates no
\* User row.
OnboardingPromptForAll ==
    [][/\ ( /\ Answers
             /\ users[last'.msg.from] = NoUser
             /\ last'.error = NoError
             /\ ~ValidName(last'.msg) )
          => last'.response = Rep("Onboarding") /\ users' = users
       /\ \A p \in Tasks :
            (Keeps(p) /\ users[h'[p].msg.from] = NoUser) => ValidName(h'[p].msg)
      ]_vars

\* the reply to a text message of an unknown sender that is no valid name
Refusal(m) ==
    IF m.cmd # "name" THEN Rep("Onboarding")
    ELSE IF Join(m.args) = <<>> THEN Rep("NameUsage")
    ELSE Rep("NameTooLong")

\* C10, amended: for a sender with no User row, every text input other than
\* a valid `name <text>` creates no User row; it returns the onboarding
\* prompt unless its first word is `name`: `name` with no text returns the
\* usage of `name`, and `name` with more than 20 characters the too-long
\* message.
OnboardingPromptUnlessName ==
    [][/\ ( /\ Answers
             /\ users[last'.msg.from] = NoUser
             /\ last'.error = NoError
             /\ ~ValidName(last'.msg) )
          => last'.response = Refusal(last'.msg) /\ users' = users
       /\ \A p \in Tasks :
            (Keeps(p) /\ users[h'[p].msg.from] = NoUser) =>
                ValidName(h'[p].msg) /\ h'[p].pc = "onboard_insert"
      ]_vars

\* C10 witness: an unknown sender sent `name` with 21 characters, got the
\* too-long message, and has no User row.
LongNameRefused ==
    /\ last.msg.cmd = "name" /\ Len(Join(last.msg.args)) > MAX_NAME_LEN
    /\ last.response = Rep("NameTooLong")
    /\ users[last.msg.from] = NoUser

\* entry e answers an import of sender s whose one card was deferred
Defers(e, s) == e.msg.media /\ e.msg.from = s /\ e.results = <<"Deferred">>
\* entry e answers a pick of sender s that found the list d non-empty
PicksFrom(e, s) ==
    ~e.msg.media /\ e.msg.from = s /\ e.msg.cmd = "pick" /\ e.seen[s].list # <<>>

\* C16: every access to the deferred map evicts expired entries first, a
\* new deferral included: when an import appends a deferred contact for S,
\* none of S's deferred contacts is older than the timeout, and the position
\* of the new contact shown in the import's reply is the position at which
\* the pick that follows finds it.
DeferralEvictsExpired ==
    /\ [][\A p \in Tasks :
            (h[p].pc = "vc_defer" /\ h'[p] # h[p]) =>
                \A c \in Range(deferred'[h[p].msg.from].list) : Fresh(c)
        ]_vars
    /\ [](\A s \in Senders : \A i \in 1..(Len(log) - 1) :
            (Defers(log[i], s) /\ PicksFrom(log[i + 1], s)) =>
                Len(log[i].response.ok) = Len(log[i + 1].seen[s].list))

\* a text message whose body holds no word
Blank(m) == ~m.media /\ m.cmd = "" /\ m.args = <<>>
\* the step in which a task takes a blank message of a sender that has a
\* User row, and answers it at once
AnswersBlank == Answers /\ Blank(last'.msg) /\ users[last'.msg.from] # NoUser
\* no task goes on handling a blank message
BlankEndsAtOnce == \A p \in Tasks : Keeps(p) => ~Blank(h'[p].msg)

\* C14, as claimed: for a sender that has a User row, a text with an empty
\* or blank body returns the hint of `h`, never an error outcome, and
\* changes no User, Contact, DeferredContact or PendingDeletion state.
BlankGetsHint ==
    [][/\ AnswersBlank => last'.response = Rep("HintH") /\ UNCHANGED <<store, maps>>
       /\ BlankEndsAtOnce
      ]_vars

\* C14, amended: for a sender that has a User row, a text with an empty or
\* blank body changes no User, Contact, DeferredContact or PendingDeletion
\* state and returns the hint of `h`, unless the lookup of the sender fails
\* in the store: then it returns the generic failure reply.
BlankGetsHintOrFailure ==
    [][/\ AnswersBlank =>
            /\ UNCHANGED <<store, maps>>
            /\ IF last'.error = NoError THEN last'.response = Rep("HintH")
               ELSE /\ last'.error = [call |-> "select user", n |-> 1]
                    /\ last'.response = InternalServerError
       /\ BlankEndsAtOnce
      ]_vars

\* C14 witness: +11 has a User row, sent a blank text and got the hint.
BlankAnswered ==
    /\ Blank(last.msg)
    /\ last.msg.from = "+11"
    /\ users["+11"] # NoUser
    /\ last.response = Rep("HintH")

(***************************************************************************)
(* SpecLocks: the two Mutexes are taken and released in steps of their     *)
(* own, so that a task can wait for one; imports, picks, deletes and       *)
(* confirms overlap, and every handler step is taken fairly.               *)
(***************************************************************************)
\* the map whose lock the step at position pc takes first
LockAt(pc) ==
    CASE pc \in {"pick_lock", "pick_clear", "vc_defer", "vc_report"} -> "deferred"
      [] pc \in {"del_cleanup", "del_store", "cf_cleanup", "cf_resolve", "cf_purge"} -> "pending"
      [] OTHER -> "none"

\* task p holds a lock
Holds(p) == \E l \in Maps : locks[l] = p
\* task p is at a step that takes a lock and has not got it
Waits(p) == LockAt(h[p].pc) # "none" /\ locks[LockAt(h[p].pc)] # p
\* task p is inside the block that holds the lock
Entered(p) == LockAt(h[p].pc) # "none" /\ locks[LockAt(h[p].pc)] = p

\* Mutex::lock: the task gets the lock when no task holds it
Lock(p) ==
    /\ LockAt(h[p].pc) # "none"
    /\ locks[LockAt(h[p].pc)] = 0
    /\ locks' = [locks EXCEPT ![LockAt(h[p].pc)] = p]
    /\ UNCHANGED <<store, maps, clock, msgs, h, log, shown>>

\* the positions at which the next step is a store call (process_vcard
\* canonicalizes the card's numbers between vc_user and vc_existing)
StoreCalls ==
    {"onboard_insert", "name_update", "stop_delete", "contacts_query",
     "vc_user", "vc_existing", "vc_update", "vc_insert", "pick_token",
     "del_query", "cf_fetch", "cf_begin", "cf_del", "cf_commit"}

Sel_e1a == << <<"é">>, <<"1", "a">> >>

LockUsers == [AllKnown EXCEPT !["+13"] = <<"a">>]
LockRows == {[id |-> 1, sub |-> "+12", name |-> <<"a">>, num |-> "+13"]}
LockMsgs ==
    {Media("+11", <<CardTwo>>), Text("+11", "pick", Sel_1a), Text("+11", "pick", Sel_e1a),
     Text("+12", "delete", << <<"a">> >>), Text("+12", "confirm", Sel_1)}

\* a step of task p's handler
Step(p) ==
    \/ Lock(p)
    \/ VcUser(p) \/ VcExisting(p) \/ PickToken(p)
    \/ DelQuery(p) \/ CfFetch(p) \/ CfBegin(p) \/ CfDeleteOne(p) \/ CfCommit(p)
    \/ Entered(p) /\ VcDefer(p)
    \/ Entered(p) /\ VcReport(p)
    \/ Entered(p) /\ PickLock(p)
    \/ Entered(p) /\ PickClear(p)
    \/ Entered(p) /\ DelCleanup(p)
    \/ Entered(p) /\ DelStore(p)
    \/ Entered(p) /\ CfCleanup(p)
    \/ Entered(p) /\ CfResolve(p)
    \/ Entered(p) /\ CfPurge(p)

InitLocks == Start(LockUsers, LockRows, 1)
NextLocks == Receive(LockMsgs) \/ \E p \in Tasks : Step(p)
\* every store call returns and every runnable task is scheduled
SpecLocks == InitLocks /\ [][NextLocks]_vars /\ \A p \in Tasks : WF_vars(Step(p))

\* every message taken is eventually answered or dropped
EveryHandlerEnds == \A p \in Tasks : (h[p].pc # "idle") ~> (h[p].pc = "idle")
\* a task that holds a lock does not wait for one, and an idle task holds none
NoHoldAndWait == \A p \in Tasks : (Waits(p) \/ h[p].pc = "idle") => ~Holds(p)
\* a handler that ends has sent a reply
EndsWithReply ==
    \A p \in Tasks : h[p].pc # "idle" /\ h'[p].pc = "idle" => last'.response # NoReply

\* C12: under fair scheduling, with every store call returning, every
\* handler eventually completes with a reply and holds no map lock
\* afterwards, and no handler waits for a map lock while it holds one.
HandlersComplete ==
    /\ EveryHandlerEnds
    /\ []NoHoldAndWait
    /\ [][EndsWithReply]_vars

\* C17: no handler performs a store call or a canonicalization while it
\* holds either map lock: a task whose next step is a store call, the lookup
\* of the sender by a task that takes a message included, holds no lock.
NoStoreCallUnderLock ==
    \A p \in Tasks : h[p].pc \in StoreCalls \cup {"idle"} => ~Holds(p)

\* C17 witness: a pick has copied the list and is at the store call of its
\* first selection while the import of another task holds the lock of the
\* deferred map.
StoreCallBesideLock ==
    \E p, q \in Tasks :
        /\ p # q
        /\ h[p].pc = "pick_token"
        /\ h[p].dcs # <<>>
        /\ locks["deferred"] = q

(***************************************************************************)
(* SpecStop: a known sender stops and writes again, one message at a time, *)
(* while another sender imports a card that holds the first one's number.  *)
(***************************************************************************)
CardEleven == Card(<<"b">>, <<"+11">>)
StopMsgs ==
    {Text("+11", w, <<>>) : w \in {"stop", "", "hello", "contacts"}}
        \cup {Text("+11", "name", a) : a \in NameArgs}
        \cup {Media("+12", <<CardEleven>>)}

StopRows == {[id |-> 1, sub |-> "+11", name |-> <<"a">>, num |-> "+12"]}
InitStop == Start(AllKnown, StopRows, 3)
NextStop ==
    \/ ReceiveAlone(StopMsgs)
    \/ \E p \in Tasks :
          \/ StopDelete(p) \/ OnboardInsert(p) \/ NameUpdate(p) \/ ContactsQuery(p)
          \/ VcUser(p) \/ VcExisting(p) \/ VcInsert(p)
SpecStop == InitStop /\ [][NextStop]_vars

\* entry e answers a `stop` of sender s with the farewell
Farewell(e, s) ==
    e.msg.from = s /\ ~e.msg.media /\ e.msg.cmd = "stop" /\ e.response = Rep("Goodbye")
\* the message of s answered most recently is a `stop` that succeeded
JustStopped(s) ==
    \E i \in DOMAIN log :
        /\ Farewell(log[i], s)
        /\ \A j \in DOMAIN log : j > i => log[j].msg.from # s
\* the step in which task p ends a `stop` with the farewell
StopSucceeds(p) ==
    h[p].pc = "stop_delete" /\ h'[p].pc = "idle" /\ last'.response = Rep("Goodbye")
Forgotten(s) == users'[s] = NoUser /\ \A c \in contacts' : c.sub # s

\* C13, as claimed: after a successful `stop` of a known sender S there is
\* no User row for S and no Contact row submitted by S, and the next text of
\* S gets the onboarding prompt unless it is a valid `name <text>`.
StopForgetsSender ==
    [][/\ \A p \in Tasks : StopSucceeds(p) => Forgotten(h[p].msg.from)
       /\ ( /\ Answers
             /\ ~last'.msg.media
             /\ JustStopped(last'.msg.from)
             /\ last'.error = NoError
             /\ ~ValidName(last'.msg) )
          => last'.response = Rep("Onboarding") /\ users' = users
       /\ \A p \in Tasks :
            (Keeps(p) /\ ~h'[p].msg.media /\ JustStopped(h'[p].msg.from)) =>
                ValidName(h'[p].msg) /\ h'[p].pc = "onboard_insert"
      ]_vars

\* C13, amended: after a successful `stop` of a known sender S there is no
\* User row for S and no Contact row submitted by S; the next text of S, if
\* S still has no User row when it is looked up, creates no row unless it is
\* a valid `name <text>`, and returns the onboarding prompt unless its first
\* word is `name`: `name` with no text returns the usage of `name`, and
\* `name` with more than 20 characters the too-long message.
StopForgetsUntilNamed ==
    [][/\ \A p \in Tasks : StopSucceeds(p) => Forgotten(h[p].msg.from)
       /\ ( /\ Answers
             /\ ~last'.msg.media
             /\ JustStopped(last'.msg.from)
             /\ users[last'.msg.from] = NoUser
             /\ last'.error = NoError
             /\ ~ValidName(last'.msg) )
          => last'.response = Refusal(last'.msg) /\ users' = users
       /\ \A p \in Tasks :
            ( /\ Keeps(p)
              /\ ~h'[p].msg.media
              /\ JustStopped(h'[p].msg.from)
              /\ users[h'[p].msg.from] = NoUser ) =>
                ValidName(h'[p].msg) /\ h'[p].pc = "onboard_insert"
      ]_vars

\* C13 witness: +11 stopped, owns no row, then sent `name` with no text and
\* got the usage of `name`.
StoppedThenRefused ==
    /\ Farewell(log[2], "+11")
    /\ log[2].rows = {}
    /\ log[3].msg = Text("+11", "name", <<>>)
    /\ log[3].response = Rep("NameUsage")
    /\ users["+11"] = NoUser

(***************************************************************************)
(* SpecPurge: a sender searches, then confirms while a second confirm of   *)
(* the same sender is being handled.                                       *)
(***************************************************************************)
PurgeMsgs == {Text("+11", "delete", << <<"a">> >>), Text("+11", "confirm", Sel_1)}

InitPurge == Start(AllKnown, StopRows, 1)
NextPurge ==
    \/ ReceiveTextAny(PurgeMsgs)
    \/ DeleteSteps
SpecPurge == InitPurge /\ [][NextPurge]_vars

\* C15: after a confirm whose delete transaction committed, the pending map
\* holds no entry, of any token of any submitter, whose contact id is one of
\* the ids the confirm collected, the ids whose row was already gone when
\* the confirm read it included.
CollectedIdsPurged ==
    [][\A p \in Tasks :
          (h[p].pc = "cf_purge" /\ h'[p].pc = "idle") =>
              \A d \in pending' : d.id \notin Range(h[p].ids)
      ]_vars

(***************************************************************************)
(* SpecTokens: a sender defers a card and picks from it with good and bad  *)
(* selections, one message at a time.                                      *)
(***************************************************************************)
TokenMsgs ==
    {Media("+11", <<CardTwo>>)}
        \cup {Text("+11", "pick", a) : a \in {Sel_1a1a, Sel_1b2a, Sel_bad, Sel_e1a}}

InitTokens == Start(AllKnown, {}, 1)
NextTokens ==
    \/ ReceiveAlone(TokenMsgs)
    \/ \E p \in Tasks : VcUser(p) \/ VcExisting(p) \/ VcDefer(p) \/ VcReport(p)
    \/ PickSteps
SpecTokens == InitTokens /\ [][NextTokens]_vars

\* the entries a pick has recorded so far
Recorded(rec) == Len(rec.successful) + Len(rec.failed)

\* C18: pick handles every selection on its own: each one adds exactly one
\* entry, to the successes or to the failures, and the loop goes on to the
\* next selection whether this one was malformed, out of range or failed to
\* insert; the reply lists one entry per selection.
EverySelectionRecorded ==
    [][\A p \in Tasks :
          /\ (h[p].pc = "pick_token" /\ h'[p] # h[p]) =>
                /\ h'[p].pc = IF Tail(h[p].sel) = <<>> THEN "pick_clear" ELSE "pick_token"
                /\ h'[p].sel = Tail(h[p].sel)
                /\ Recorded(h'[p]) = Recorded(h[p]) + 1
          /\ (h[p].pc = "pick_clear" /\ h'[p] # h[p]) =>
                Len(last'.response.ok) + Len(last'.response.failed) = Len(last'.msg.args)
      ]_vars

(***************************************************************************)
(* SpecNames: senders rename themselves and import single-number cards,    *)
(* one message at a time.                                                  *)
(***************************************************************************)
CardLong == Card(LongWord, <<"+13">>)
NameMsgs ==
    {Media("+11", <<c>>) : c \in {CardOne, CardLong}}
        \cup {Text(s, "name", a) : s \in Senders, a \in NameArgs}

InitNames == Start([AllKnown EXCEPT !["+12"] = NoUser], {}, 1)
NextNames ==
    \/ ReceiveAlone(NameMsgs)
    \/ \E p \in Tasks :
          \/ OnboardInsert(p) \/ NameUpdate(p)
          \/ VcUser(p) \/ VcExisting(p) \/ VcInsert(p)
SpecNames == InitNames /\ [][NextNames]_vars

\* C19: in every reachable state every User row has a name of at most 20
\* characters, whether the row was made by onboarding, changed by `name`,
\* or made for the number of a contact by an import or a pick.
UserNamesShort ==
    \A n \in Numbers : users[n] # NoUser => Len(users[n]) <= MAX_NAME_LEN

(***************************************************************************)
(* SpecRace: a sender imports cards that are deferred while a pick of the  *)
(* same sender is being handled.                                           *)
(***************************************************************************)
RaceMsgs ==
    {Media("+11", <<c>>) : c \in {CardTwo, CardSame}}
        \cup {Text("+11", "pick", Sel_1a)}

InitRace == Start(AllKnown, {}, 1)
NextRace ==
    \/ ReceiveAny(RaceMsgs)
    \/ \E p \in Tasks : VcUser(p) \/ VcExisting(p) \/ VcDefer(p) \/ VcReport(p)
    \/ PickSteps
SpecRace == InitRace /\ [][NextRace]_vars

\* C20: a pick removes only the deferred contacts it resolved against: a
\* contact that an import of the same sender appended after the pick copied
\* the list is still in the sender's list when the pick has cleared it.
PickKeepsLaterCards ==
    [][\A p \in Tasks :
          (h[p].pc = "pick_clear" /\ h'[p] # h[p]) =>
              \A c \in Range(deferred[h[p].msg.from].list) :
                  c \notin Range(h[p].dcs) =>
                      c \in Range(deferred'[h[p].msg.from].list)
      ]_vars

(***************************************************************************)
(* SpecReport: a sender searches and confirms, with a repeated ordinal and *)
(* with two confirms handled at once.                                      *)
(***************************************************************************)
Sel_11 == << <<"1">>, <<"1">> >>
ReportMsgs ==
    {Text("+11", "delete", << <<"a">> >>)}
        \cup {Text("+11", "confirm", a) : a \in {Sel_1, Sel_11}}

InitReport == Start(AllKnown, StopRows, 2)
NextReport == ReceiveTextAny(ReportMsgs) \/ DeleteSteps
SpecReport == InitReport /\ [][NextReport]_vars

\* the ids of the contacts entry e reports as deleted, in the order listed
Reported(e) ==
    IF e.response.kind = "Deleted"
    THEN [i \in DOMAIN e.response.ok |-> e.response.ok[i].id] ELSE <<>>

\* C21: a confirm reports as many deleted contacts as its transaction
\* removed rows, and over all confirms no contact row is reported as
\* deleted twice, a confirm that repeats an ordinal and two confirms of one
\* ordinal handled at once included.
DeletedReportedOnce ==
    /\ [][\A p \in Tasks :
            (h[p].pc = "cf_commit" /\ h'[p].pc = "cf_purge") =>
                Len(h[p].found) = Cardinality(contacts \ contacts')
        ]_vars
    /\ [](\A i, j \in DOMAIN log :
            /\ \A k, l \in DOMAIN Reported(log[i]) :
                  k # l => Reported(log[i])[k] # Reported(log[i])[l]
            /\ i # j => Range(Reported(log[i])) \cap Range(Reported(log[j])) = {})

(***************************************************************************)
(* SpecRemove: senders that own contacts search, confirm, stop and import, *)
(* one message at a time, while the clock advances.                        *)
(***************************************************************************)
RemoveMsgs ==
    {Text("+11", "delete", << <<"a">> >>), Text("+11", "confirm", Sel_1),
     Text("+11", "stop", <<>>), Media("+11", <<CardOne>>),
     Text("+12", "delete", << <<"A">> >>), Text("+12", "confirm", Sel_1)}

NextRemove ==
    \/ ReceiveAlone(RemoveMsgs)
    \/ DeleteSteps
    \/ \E p \in Tasks : StopDelete(p) \/ VcUser(p) \/ VcExisting(p) \/ VcUpdate(p)
    \/ Tick
SpecRemove == InitDelete /\ [][NextRemove]_vars

\* the contacts, by id, that a step removes
Removed == {c \in contacts : \A d \in contacts' : d.id # c.id}

\* C22: a contact row is removed only by a `stop` of its owner, or by a
\* confirm of its owner naming an ordinal under which a delete of that owner
\* listed the contact at most 5 minutes before; no other command removes a
\* row and no confirm removes a row of another sender.
RemovedOnlyByOwner ==
    [][\A p \in Tasks :
          /\ (Removed # {} /\ h'[p] # h[p]) =>
                \/ /\ h[p].pc = "stop_delete"
                   /\ \A c \in Removed : c.sub = h[p].msg.from
                \/ /\ h[p].pc = "cf_commit"
                   /\ \A c \in Removed : c.sub = h[p].msg.from /\ c.id \in Range(h[p].ids)
          /\ (h[p].pc = "cf_resolve" /\ h'[p].pc = "cf_fetch") =>
                \A i \in DOMAIN h'[p].ids :
                    \E d \in pending :
                        /\ d.sub = h[p].msg.from
                        /\ d.id = h'[p].ids[i]
                        /\ \E k \in DOMAIN h[p].sel : ParseUsize(h[p].sel[k]) = d.ord
                        /\ now - d.ts <= DELETION_TIMEOUT
      ]_vars

(***************************************************************************)
(* SpecRejoin: a sender defers a card or searches, stops, onboards again   *)
(* and picks or confirms, one message at a time and with no clock advance, *)
(* so that nothing expires.                                                *)
(***************************************************************************)
RejoinMsgs ==
    {Media("+11", <<CardTwo>>), Text("+11", "pick", Sel_1a),
     Text("+11", "delete", << <<"a">> >>), Text("+11", "confirm", Sel_1),
     Text("+11", "stop", <<>>), Text("+11", "name", << <<"a">> >>)}

\* +11 has itself as its one contact
RejoinRows == {[id |-> 1, sub |-> "+11", name |-> <<"a">>, num |-> "+11"]}
InitRejoin == Start(AllKnown, RejoinRows, 3)
NextRejoin ==
    \/ ReceiveRejoin(RejoinMsgs)
    \/ DeleteSteps
    \/ PickSteps
    \/ \E p \in Tasks :
          \/ StopDelete(p) \/ OnboardInsert(p) \/ NameUpdate(p)
          \/ VcUser(p) \/ VcExisting(p) \/ VcDefer(p) \/ VcReport(p)
SpecRejoin == InitRejoin /\ [][NextRejoin]_vars

\* entry e greets sender s, who onboarded with `name`
Greeted(e, s) ==
    e.msg.from = s /\ ~e.msg.media /\ e.msg.cmd = "name" /\ e.response = Rep("Hello")
\* the lookup of the sender succeeded for the message of entry e
LookedUp(e) == e.error.call # "select user"

\* C23: after a `stop` of sender S the deferred contacts and the deletion
\* tokens S made before are no longer usable: when S onboards again with
\* `name` within 5 minutes, a pick of S answers that nothing is pending and
\* a confirm of S resolves none of the old ordinals.
StopDropsPending ==
    \A s \in Senders :
        (Farewell(log[1], s) /\ Greeted(log[2], s) /\ log[3].msg.from = s
           /\ ~log[3].msg.media /\ LookedUp(log[3])) =>
            /\ log[3].msg.cmd = "pick" => log[3].response = Rep("NoPending")
            /\ log[3].msg.cmd = "confirm" =>
                  /\ log[3].error = NoError
                  /\ log[3].response.kind \in {"NoValidSelections", "Errors"}

(***************************************************************************)
(* SpecGuest: +11 has no User row and has sent no `name` when the process  *)
(* starts; +12, a user, imports a card that holds the number of +11, and   *)
(* +11 writes, one message at a time.                                      *)
(***************************************************************************)
GuestUsers == [AllKnown EXCEPT !["+11"] = NoUser]
Guests == {s \in Senders : GuestUsers[s] = NoUser}
GuestMsgs ==
    {Media("+12", <<CardEleven>>), Media("+11", <<CardOne>>)}
        \cup {Text("+11", w, <<>>) : w \in {"hello", "contacts", "stop"}}
        \cup {Text("+11", "name", << <<"a">> >>)}

InitGuest == Start(GuestUsers, {}, 3)
NextGuest ==
    \/ ReceiveAlone(GuestMsgs)
    \/ \E p \in Tasks :
          \/ OnboardInsert(p) \/ NameUpdate(p) \/ StopDelete(p) \/ ContactsQuery(p)
          \/ VcUser(p) \/ VcExisting(p) \/ VcInsert(p)
SpecGuest == InitGuest /\ [][NextGuest]_vars

\* sender s has onboarded with a `name` message of its own
Named(s) == \E i \in DOMAIN log : Greeted(log[i], s)
\* sender s had no User row at the start and has sent no successful `name`
Unnamed(s) == s \in Guests /\ ~Named(s)

\* C24: a sender is handled as a known user only after a successful `name`
\* message of its own: a sender that never sent one gets the onboarding
\* prompt for every other text and runs no command and no import, even when
\* other users imported cards or picked contacts with that sender's number.
KnownOnlyAfterName ==
    [][/\ ( /\ Answers
             /\ ~last'.msg.media
             /\ Unnamed(last'.msg.from)
             /\ last'.error = NoError
             /\ ~ValidName(last'.msg) )
          => last'.response = Rep("Onboarding")
       /\ \A p \in Tasks :
            (h'[p] # h[p] /\ h'[p].pc # "idle" /\ Unnamed(h'[p].msg.from)) =>
                \/ h'[p].pc = "vc_user"
                \/ h'[p].pc = "onboard_insert" /\ ValidName(h'[p].msg)
      ]_vars

\* C24, amended: a sender is handled as a known user exactly when a User row
\* for its number exists when it is looked up, whether the sender's own
\* `name` made the row or another user's import or pick of a contact with
\* that number did.  A sender with no row creates none except by a valid
\* `name <text>`, gets the onboarding prompt for every other text whose
\* first word is not `name` (the usage or the too-long message for `name`),
\* and its card import goes no further than the check of the sender.
KnownByUserRow ==
    [][/\ ( /\ Answers
             /\ ~last'.msg.media
             /\ Unnamed(last'.msg.from)
             /\ last'.error = NoError )
          => IF users[last'.msg.from] = NoUser
             THEN ~ValidName(last'.msg) /\ last'.response = Refusal(last'.msg)
                    /\ users' = users
             ELSE last'.response = dispatch_known(last'.msg).reply
       /\ \A p \in Tasks :
            /\ (Keeps(p) /\ ~h'[p].msg.media /\ Unnamed(h'[p].msg.from)) =>
                  IF users[h'[p].msg.from] = NoUser
                  THEN ValidName(h'[p].msg) /\ h'[p].pc = "onboard_insert"
                  ELSE h'[p].pc = dispatch_known(h'[p].msg).pc
            /\ (h[p].pc = "vc_user" /\ h'[p] # h[p] /\ users[h[p].msg.from] = NoUser) =>
                  h'[p].pc \in {"idle", "vc_user"} /\ UNCHANGED store
            /\ (h[p].pc = "vc_insert" /\ contacts' # contacts) =>
                  users'[h[p].new_numbers[1]] # NoUser
      ]_vars

\* C24 witness: +11 never sent `name`; +12 imported a card with the number
\* of +11, and +11 then ran `contacts` as a known user.
GuestRanCommand ==
    /\ ~Named("+11")
    /\ \E i \in DOMAIN log : log[i].msg = Media("+12", <<CardEleven>>)
                              /\ log[i].results = <<"Added">>
    /\ last.msg = Text("+11", "contacts", <<>>)
    /\ last.response = Rep("NoContacts")
====
